---- MODULE Spec2Model ----
(***************************************************************************)
(* Identity and session lifecycle of the ecoride server: the auth          *)
(* controller (login, register, legacy auth, refreshToken, profile read    *)
(* and update), the admin-login route and the admin controller (listing,   *)
(* approve, disapprove, update, delete), over one user collection.         *)
(***************************************************************************)
EXTENDS Naturals, Sequences, FiniteSets, TLC

\* Bounds of the model.
MaxAccounts == 2
MaxClock == 2
MaxInFlight == 1

\* Lifetime of a refresh token in clock ticks (REFRESH_TOKEN_EXPIRY of the environment).
RefreshTTL == 2

VARIABLES users, nextId, now, held, resp, inflight

vars == <<users, nextId, now, held, resp, inflight>>

----------------------------------------------------------------------------
\* Values

\* JavaScript's undefined: a field that is absent from a document or a body.
UNDEF == "<undefined>"

Ids == 1..MaxAccounts

Emails == {"admin@x.com", "a@x.com", "p1@temp.ecoride.com"}

Phones == {"p1"}

Passwords == {"pw", "bad"}

\* What Math.random().toString(36) can give the legacy path for a password.
RandomPasswords == {"k3j9x2q1z8w7v6u5"}

LoginRoles == {"customer", "rider", "admin"}

SelfServiceRoles == {"customer", "rider"}

Statuses == {"pending", "approved", "disapproved"}

\* A request body (or query): a function from the names of the fields that are
\* present to their values.
EmptyBody == [f \in {} |-> UNDEF]

\* A licenseId is a sequence of characters, so that trimming, upper-casing and
\* its length are computed; its undefined is a value no string of characters equals.
NOLICENSE == <<UNDEF>>

Undefined(f) == IF f = "licenseId" THEN NOLICENSE ELSE UNDEF

Field(body, f) == IF f \in DOMAIN body THEN body[f] ELSE Undefined(f)

\* !v for the string-valued fields of a body.
Falsy(v) == v = UNDEF \/ v = ""

\* !licenseId
FalsyLicense(l) == l = NOLICENSE \/ l = <<>>

\* String.prototype.trim and toUpperCase on a sequence of characters.
RECURSIVE trimStart(_)
trimStart(s) == IF s # <<>> /\ Head(s) = " " THEN trimStart(Tail(s)) ELSE s

RECURSIVE trimEnd(_)
trimEnd(s) ==
    IF s # <<>> /\ s[Len(s)] = " " THEN trimEnd(SubSeq(s, 1, Len(s) - 1)) ELSE s

trim(s) == trimEnd(trimStart(s))

upperChar(c) == IF c = "a" THEN "A" ELSE IF c = "b" THEN "B" ELSE c

toUpperCase(s) == [i \in 1..Len(s) |-> upperChar(s[i])]

----------------------------------------------------------------------------
\* The User model: password hashing, token signing, serialisation

Hash(plain) == "bcrypt:" \o plain

comparePassword(user, candidate) == user.password = Hash(candidate)

createAccessToken(id) ==
    [key |-> "ACCESS_TOKEN_SECRET", id |-> id, iat |-> now]

createRefreshToken(id) ==
    [key |-> "REFRESH_TOKEN_SECRET", id |-> id, iat |-> now, exp |-> now + RefreshTTL]

\* jwt.verify(token, secret): the signature is the secret's and the token has not expired.
jwtVerify(token, secret) ==
    /\ token.key = secret
    /\ "exp" \in DOMAIN token => now < token.exp

\* The fields of a document that are set (undefined ones are not stored).
SetFields(doc) == {"approved"} \cup {f \in DOMAIN doc \ {"approved"} : doc[f] # Undefined(f)}

\* res.json of a document: every field the query selected, and _id.
toJSON(id, doc, selected) ==
    [f \in (SetFields(doc) \cap selected) \cup {"_id"} |-> IF f = "_id" THEN id ELSE doc[f]]

AllFields ==
    {"email", "password", "phone", "role", "status", "approved", "disapprovalReason",
     "licenseId", "firstName", "middleName", "lastName", "schoolId", "sex"}

\* .select('-password')
selectMinusPassword == AllFields \ {"password"}

\* new User({...}): the document a constructor call builds.
NewUser(fields) ==
    [f \in AllFields |-> IF f \in DOMAIN fields THEN fields[f] ELSE Undefined(f)]

----------------------------------------------------------------------------
\* The store

\* findOne: the first document (in insertion order) that matches, 0 for null.
findOne(matches) ==
    IF matches = {} THEN 0 ELSE CHOOSE i \in matches : \A j \in matches : i <= j

findById(id) == IF id \in DOMAIN users THEN id ELSE 0

\* emailInUse counting the account's own email as taken.
emailInUse_IgnoresOwner(email, exceptId) ==
    findOne({i \in DOMAIN users : users[i].email = email}) # 0

\* User.findOne({ email, _id: { $ne: exceptId } }) finds an account (exceptId
\* is 0 where the query names no id).
emailInUse(email, exceptId) ==
    findOne({i \in DOMAIN users : users[i].email = email /\ i # exceptId}) # 0

\* UniqueIndexesHold of a collection whose only unique index is on email.
UniqueIndexes_EmailOnly(id, doc) ==
    \A j \in DOMAIN users \ {id} : users[j].email # doc.email

\* UniqueIndexesHold of a collection without unique indexes.
UniqueIndexes_None(id, doc) == TRUE

\* The collection's unique indexes, on email and on phone (where phone is set):
\* whether writing doc as document id keeps them.
UniqueIndexesHold(id, doc) ==
    \A j \in DOMAIN users \ {id} :
        /\ users[j].email # doc.email
        /\ doc.phone # UNDEF => users[j].phone # doc.phone

\* user.save() of a new document: the pre-save hook hashes the password.
preSave(doc) == [doc EXCEPT !.password = Hash(@)]

\* user.save() of a loaded document: the modified paths are written to the stored one.
applyChanges(doc, changes) ==
    [f \in DOMAIN doc |-> IF f \in DOMAIN changes THEN changes[f] ELSE doc[f]]

\* An assignment to a path of the loaded document, made when cond holds.
Assign(cond, f, v) == IF cond THEN f :> v ELSE EmptyBody

----------------------------------------------------------------------------
\* Responses

\* An error thrown to the error-handler middleware, or answered in a catch block.
Failure(op, code, error, message) ==
    [op |-> op, code |-> code, error |-> error, message |-> message]

BadRequest(op, message) == Failure(op, 400, "BadRequestError", message)

Unauthenticated(op, message) == Failure(op, 401, "UnauthenticatedError", message)

NotFound(op, message) == Failure(op, 404, "NotFoundError", message)

\* Anything else a handler lets through or maps to INTERNAL_SERVER_ERROR.
ServerFailure(op, message) == Failure(op, 500, "Error", message)

\* The 403 answers of the approval gate.
Gated(op, status) ==
    [op |-> op, code |-> 403, status |-> status, isApproved |-> FALSE,
     message |-> IF status = "disapproved"
                 THEN "Your account has been disapproved. Please contact support for assistance."
                 ELSE "Your account is pending approval. Please wait for an administrator to approve your account."]

\* The 200 answer that carries the document as loaded and a fresh token pair.
LoggedIn(op, message, id) ==
    [op |-> op, code |-> 200, message |-> message,
     user |-> toJSON(id, users[id], AllFields),
     access_token |-> createAccessToken(id),
     refresh_token |-> createRefreshToken(id)]

\* A handler that answers r and writes nothing.
Reply(r) ==
    /\ resp' = r
    /\ UNCHANGED <<users, nextId, now, held>>

----------------------------------------------------------------------------
\* Auth controller: login

\* loginGate with the pending branch lost.
loginGate_PendingPasses(role, user) ==
    IF role # "admin" /\ user.status = "disapproved" THEN "disapproved" ELSE "pass"

\* loginGate applied to every role.
loginGate_NoAdminBypass(role, user) ==
    IF user.status = "disapproved" THEN "disapproved"
    ELSE IF user.status = "pending" THEN "pending"
    ELSE "pass"

\* The approval gate of login, skipped for the admin role.
loginGate(role, user) ==
    IF role # "admin" /\ user.status = "disapproved" THEN "disapproved"
    ELSE IF role # "admin" /\ user.status = "pending" THEN "pending"
    ELSE "pass"

\* User.findOne({ email, role })
findByEmailAndRole(email, role) ==
    findOne({i \in DOMAIN users : users[i].email = email /\ users[i].role = role})

\* loginNotFound telling the caller that no account matched.
loginNotFound_Distinct == Unauthenticated("login", "User not found")

\* The answer of login when no account has the email and role.
loginNotFound == Unauthenticated("login", "Invalid credentials")

\* The answer of login when the password does not verify.
loginWrongPassword == Unauthenticated("login", "Invalid credentials")

loginResponse(body) ==
    LET email == Field(body, "email")
        password == Field(body, "password")
        role == Field(body, "role")
        uid == findByEmailAndRole(email, role)
    IN  IF Falsy(email) \/ Falsy(password)
        THEN BadRequest("login", "Please provide email and password")
        ELSE IF Falsy(role) \/ role \notin {"customer", "rider", "admin"}
        THEN BadRequest("login", "Valid role is required (customer, rider, or admin)")
        ELSE IF uid = 0
        THEN loginNotFound
        ELSE IF ~comparePassword(users[uid], password)
        THEN loginWrongPassword
        ELSE IF loginGate(role, users[uid]) # "pass"
        THEN Gated("login", loginGate(role, users[uid]))
        ELSE LoggedIn("login", "User logged in successfully", uid)

login(body) == Reply(loginResponse(body)) /\ UNCHANGED inflight

----------------------------------------------------------------------------
\* Auth routes: admin-login

adminLoginResponse(body) ==
    LET email == Field(body, "email")
        password == Field(body, "password")
        aid == findByEmailAndRole(email, "admin")
    IN  IF aid = 0
        THEN [op |-> "adminLogin", code |-> 401, message |-> "Invalid credentials"]
        ELSE IF ~comparePassword(users[aid], password)
        THEN [op |-> "adminLogin", code |-> 401, message |-> "Invalid credentials"]
        ELSE LoggedIn("adminLogin", "Admin logged in successfully", aid)

adminLogin(body) == Reply(adminLoginResponse(body)) /\ UNCHANGED inflight

----------------------------------------------------------------------------
\* Auth controller: register

\* The licenseId a rider's request is stored with: trimmed and upper-cased.
formatLicenseId(licenseId) == toUpperCase(trim(licenseId))

\* The checks of register before the document is built: a response, or "ok".
registerCheck(body) ==
    LET email == Field(body, "email")
        password == Field(body, "password")
        role == Field(body, "role")
        licenseId == Field(body, "licenseId")
    IN  IF Falsy(email) \/ Falsy(password)
        THEN BadRequest("register", "Please provide email and password")
        ELSE IF Falsy(role) \/ role \notin {"customer", "rider"}
        THEN BadRequest("register", "Valid role is required (customer or rider)")
        ELSE IF emailInUse(email, 0)
        THEN BadRequest("register", "Email already in use")
        ELSE IF /\ role = "rider"
                /\ ~FalsyLicense(licenseId)
                /\ Len(formatLicenseId(licenseId)) < 4
        THEN BadRequest("register", "License ID must be at least 4 characters")
        ELSE [op |-> "register", code |-> 0]

\* registerDocument creating the account already approved.
registerDocument_Approved(body) ==
    NewUser([email |-> Field(body, "email"), password |-> Field(body, "password"),
             role |-> Field(body, "role"), approved |-> TRUE, status |-> "approved"])

\* registerDocument setting the legacy approved flag.
registerDocument_ApprovedFlag(body) ==
    NewUser([email |-> Field(body, "email"), password |-> Field(body, "password"),
             role |-> Field(body, "role"), approved |-> TRUE, status |-> "pending"])

\* new User({...}) of register.
registerDocument(body) ==
    LET role == Field(body, "role")
        licenseId == Field(body, "licenseId")
    IN  NewUser([email |-> Field(body, "email"),
                 password |-> Field(body, "password"),
                 role |-> role,
                 firstName |-> Field(body, "firstName"),
                 middleName |-> Field(body, "middleName"),
                 lastName |-> Field(body, "lastName"),
                 phone |-> Field(body, "phone"),
                 schoolId |-> Field(body, "schoolId"),
                 licenseId |-> IF role = "rider" /\ ~FalsyLicense(licenseId)
                               THEN formatLicenseId(licenseId)
                               ELSE licenseId,
                 sex |-> Field(body, "sex"),
                 approved |-> FALSE,
                 status |-> "pending"])

\* await user.save() of register and the 201 answer; a rejected save is thrown on.
registerSave(doc) ==
    IF ~UniqueIndexesHold(nextId, doc)
    THEN Reply(ServerFailure("register", "E11000 duplicate key error"))
    ELSE /\ nextId <= MaxAccounts
         /\ users' = users @@ (nextId :> preSave(doc))
         /\ nextId' = nextId + 1
         /\ resp' = [op |-> "register", code |-> 201,
                     message |-> "User registered successfully. Your account is pending approval.",
                     user |-> toJSON(nextId, preSave(doc), AllFields),
                     access_token |-> createAccessToken(nextId),
                     refresh_token |-> createRefreshToken(nextId),
                     isApproved |-> FALSE,
                     status |-> "pending"]
         /\ UNCHANGED <<now, held>>

register(body) ==
    /\ IF registerCheck(body).code # 0
       THEN Reply(registerCheck(body))
       ELSE registerSave(registerDocument(body))
    /\ UNCHANGED inflight

----------------------------------------------------------------------------
\* Auth controller: legacy phone authentication

\* The approval gate of the legacy path: no role is exempt.
authGate(user) ==
    IF user.status = "disapproved" THEN "disapproved"
    ELSE IF user.status = "pending" THEN "pending"
    ELSE "pass"

\* The placeholder email of an account the legacy path creates.
tempEmail(phone) == phone \o "@temp.ecoride.com"

\* The legacy path up to the lookup by phone: a response, or "ok" when no
\* account has the phone and one is to be created.
authCheck(body) ==
    LET phone == Field(body, "phone")
        role == Field(body, "role")
        uid == findOne({i \in DOMAIN users : users[i].phone = phone})
    IN  IF Falsy(phone)
        THEN BadRequest("auth", "Phone number is required")
        ELSE IF Falsy(role) \/ role \notin {"customer", "rider"}
        THEN BadRequest("auth", "Valid role is required (customer or rider)")
        ELSE IF uid # 0 /\ users[uid].role # role
        THEN BadRequest("auth", "Phone number and role do not match")
        ELSE IF uid # 0 /\ authGate(users[uid]) # "pass"
        THEN Gated("auth", authGate(users[uid]))
        ELSE IF uid # 0
        THEN LoggedIn("auth", "User logged in successfully", uid)
        ELSE [op |-> "auth", code |-> 0]

\* new User({...}) of the legacy path.
authDocument(body, randomPassword) ==
    NewUser([phone |-> Field(body, "phone"),
             role |-> Field(body, "role"),
             email |-> tempEmail(Field(body, "phone")),
             password |-> randomPassword,
             approved |-> FALSE,
             status |-> "pending"])

\* await user.save() of the legacy path and its 403 answer.
authSave(doc) ==
    IF ~UniqueIndexesHold(nextId, doc)
    THEN Reply(ServerFailure("auth", "E11000 duplicate key error"))
    ELSE /\ nextId <= MaxAccounts
         /\ users' = users @@ (nextId :> preSave(doc))
         /\ nextId' = nextId + 1
         /\ resp' = [op |-> "auth", code |-> 403,
                     message |-> "Account pending approval",
                     status |-> "pending",
                     isApproved |-> FALSE,
                     user |-> [_id |-> nextId, phone |-> doc.phone, role |-> doc.role]]
         /\ UNCHANGED <<now, held>>

auth(body) ==
    /\ IF authCheck(body).code # 0
       THEN Reply(authCheck(body))
       ELSE \E randomPassword \in RandomPasswords :
                authSave(authDocument(body, randomPassword))
    /\ UNCHANGED inflight

----------------------------------------------------------------------------
\* Auth controller: refreshToken

\* The refresh tokens a client has: the one it kept and the one of the last response.
ClientTokens ==
    held \cup (IF "refresh_token" \in DOMAIN resp THEN {resp.refresh_token} ELSE {})

\* The refresh_token values a client can send: none, a refresh token it has,
\* that token with its signature altered, or the access token issued with it.
RefreshBodies ==
    {EmptyBody}
    \cup {[refresh_token |-> t] : t \in ClientTokens}
    \cup {[refresh_token |-> [t EXCEPT !.key = "tampered"]] : t \in ClientTokens}
    \cup {[refresh_token |-> [key |-> "ACCESS_TOKEN_SECRET", id |-> t.id, iat |-> t.iat]] :
            t \in ClientTokens}

\* refreshTokenCatch throwing on what it caught.
refreshTokenCatch_Rethrows(error) == error

\* The catch block of refreshToken: whatever was thrown, one answer.
refreshTokenCatch(error) == Unauthenticated("refreshToken", "Invalid refresh token")

\* refreshTokenResponse applying the approval gate to the token's account.
refreshTokenResponse_Gated(body) ==
    IF "refresh_token" \notin DOMAIN body
    THEN BadRequest("refreshToken", "Refresh token is required")
    ELSE IF ~jwtVerify(body.refresh_token, "REFRESH_TOKEN_SECRET")
    THEN refreshTokenCatch(ServerFailure("refreshToken", "JsonWebTokenError"))
    ELSE IF findById(body.refresh_token.id) = 0
    THEN refreshTokenCatch(Unauthenticated("refreshToken", "Invalid refresh token"))
    ELSE IF loginGate(users[body.refresh_token.id].role, users[body.refresh_token.id]) # "pass"
    THEN Gated("refreshToken", users[body.refresh_token.id].status)
    ELSE [op |-> "refreshToken", code |-> 200,
          access_token |-> createAccessToken(body.refresh_token.id),
          refresh_token |-> createRefreshToken(body.refresh_token.id)]

refreshTokenResponse(body) ==
    IF "refresh_token" \notin DOMAIN body
    THEN BadRequest("refreshToken", "Refresh token is required")
    ELSE IF ~jwtVerify(body.refresh_token, "REFRESH_TOKEN_SECRET")
    THEN refreshTokenCatch(ServerFailure("refreshToken", "JsonWebTokenError"))
    ELSE IF findById(body.refresh_token.id) = 0
    THEN refreshTokenCatch(Unauthenticated("refreshToken", "Invalid refresh token"))
    ELSE [op |-> "refreshToken", code |-> 200,
          access_token |-> createAccessToken(body.refresh_token.id),
          refresh_token |-> createRefreshToken(body.refresh_token.id)]

refreshToken(body) == Reply(refreshTokenResponse(body)) /\ UNCHANGED inflight

----------------------------------------------------------------------------
\* Auth controller: profile

getUserProfileResponse(id) ==
    IF findById(id) = 0
    THEN Unauthenticated("getUserProfile", "User not found")
    ELSE [op |-> "getUserProfile", code |-> 200,
          user |-> toJSON(id, users[id], selectMinusPassword)]

getUserProfile(id) == Reply(getUserProfileResponse(id)) /\ UNCHANGED inflight

\* The paths of a loaded document that its assignments changed.
modifiedPaths(doc, assigned) ==
    [f \in {g \in DOMAIN assigned : assigned[g] # doc[g]} |-> assigned[f]]

\* The checks of updateUserProfile: a response, or "ok".
updateUserProfileCheck(id, body) ==
    LET licenseId == Field(body, "licenseId")
        email == Field(body, "email")
    IN  IF findById(id) = 0
        THEN Unauthenticated("updateUserProfile", "User not found")
        ELSE IF /\ licenseId # NOLICENSE
                /\ users[id].role = "rider"
                /\ ~FalsyLicense(licenseId)
                /\ Len(formatLicenseId(licenseId)) < 4
        THEN BadRequest("updateUserProfile", "License ID must be at least 4 characters")
        ELSE IF ~Falsy(email) /\ emailInUse(email, id)
        THEN BadRequest("updateUserProfile", "Email already in use")
        ELSE [op |-> "updateUserProfile", code |-> 0]

\* The assignments updateUserProfile makes to the loaded document.
updateUserProfileAssignments(id, body) ==
    LET licenseId == Field(body, "licenseId")
    IN  Assign(~Falsy(Field(body, "email")), "email", Field(body, "email"))
        @@ Assign(~Falsy(Field(body, "sex")), "sex", Field(body, "sex"))
        @@ Assign(licenseId # NOLICENSE, "licenseId",
                  IF users[id].role = "rider" /\ ~FalsyLicense(licenseId)
                  THEN formatLicenseId(licenseId)
                  ELSE licenseId)
        @@ Assign(Field(body, "schoolId") # UNDEF, "schoolId", Field(body, "schoolId"))
        @@ Assign(~Falsy(Field(body, "phone")), "phone", Field(body, "phone"))
        @@ Assign(~Falsy(Field(body, "lastName")), "lastName", Field(body, "lastName"))
        @@ Assign(Field(body, "middleName") # UNDEF, "middleName", Field(body, "middleName"))
        @@ Assign(~Falsy(Field(body, "firstName")), "firstName", Field(body, "firstName"))

\* await user.save() of a loaded document, the re-read with select('-password')
\* and the 200 answer; failure is the answer to a save the store rejects.
saveLoaded(op, id, changes, message, failure) ==
    IF id \notin DOMAIN users
    THEN Reply(ServerFailure(op, failure))
    ELSE IF changes # EmptyBody /\ ~UniqueIndexesHold(id, applyChanges(users[id], changes))
    THEN Reply(ServerFailure(op, failure))
    ELSE /\ users' = [users EXCEPT ![id] = applyChanges(@, changes)]
         /\ resp' = [op |-> op, code |-> 200, message |-> message,
                     user |-> toJSON(id, applyChanges(users[id], changes),
                                     selectMinusPassword)]
         /\ UNCHANGED <<nextId, now, held>>

updateUserProfile(id, body) ==
    /\ IF updateUserProfileCheck(id, body).code # 0
       THEN Reply(updateUserProfileCheck(id, body))
       ELSE saveLoaded("updateUserProfile", id,
                       modifiedPaths(users[id], updateUserProfileAssignments(id, body)),
                       "Profile updated successfully", "E11000 duplicate key error")
    /\ UNCHANGED inflight

----------------------------------------------------------------------------
\* Admin controller

NoUserFound(op) == NotFound(op, "No user found with id")

\* The search patterns of the model and, for each, the stored values it
\* matches as a case-insensitive regular expression.
SearchHits ==
    [x |-> {"admin@x.com", "a@x.com"},
     P1 |-> {"p1", "p1@temp.ecoride.com"}]

regexMatch(value, search) == value \in SearchHits[search]

\* The filters getAllUsers puts into queryObject from req.query.
queryFilters(query) ==
    Assign(~Falsy(Field(query, "role")), "role",
           [op |-> "$eq", value |-> Field(query, "role")])
    @@ Assign(Field(query, "approved") = "true", "approved", TRUE)
    @@ Assign(Field(query, "approved") = "false", "approved", FALSE)
    @@ Assign(~Falsy(Field(query, "search")), "$or", Field(query, "search"))

\* excludeAdmins keeping a role filter that was supplied.
excludeAdmins_KeepsRoleFilter(filters) ==
    filters @@ ("role" :> [op |-> "$ne", value |-> "admin"])

\* queryObject.role = { $ne: 'admin' }: the assignment replaces the role
\* filter, if one was set.
excludeAdmins(filters) ==
    ("role" :> [op |-> "$ne", value |-> "admin"]) @@ filters

queryObject(query) == excludeAdmins(queryFilters(query))

\* A document matches the conditions of a query object, all of them.
queryMatches(user, conditions) ==
    /\ "role" \in DOMAIN conditions =>
            IF conditions.role.op = "$eq"
            THEN user.role = conditions.role.value
            ELSE user.role # conditions.role.value
    /\ "approved" \in DOMAIN conditions => user.approved = conditions.approved
    /\ "$or" \in DOMAIN conditions =>
            \/ regexMatch(user.firstName, conditions["$or"])
            \/ regexMatch(user.lastName, conditions["$or"])
            \/ regexMatch(user.email, conditions["$or"])
            \/ regexMatch(user.phone, conditions["$or"])

\* sort({ createdAt: -1 }): newest first.
RECURSIVE newestFirst(_)
newestFirst(ids) ==
    IF ids = {} THEN <<>>
    ELSE LET m == CHOOSE i \in ids : \A j \in ids : j <= i
         IN  <<m>> \o newestFirst(ids \ {m})

getAllUsersResponse(query) ==
    LET found == newestFirst({i \in DOMAIN users : queryMatches(users[i], queryObject(query))})
    IN  [op |-> "getAllUsers", code |-> 200, count |-> Len(found),
         users |-> [k \in 1..Len(found) |->
                        toJSON(found[k], users[found[k]], selectMinusPassword)]]

getAllUsers(query) == Reply(getAllUsersResponse(query)) /\ UNCHANGED inflight

getUserByIdResponse(id) ==
    IF findById(id) = 0
    THEN NoUserFound("getUserById")
    ELSE [op |-> "getUserById", code |-> 200,
          user |-> toJSON(id, users[id], selectMinusPassword)]

getUserById(id) == Reply(getUserByIdResponse(id)) /\ UNCHANGED inflight

\* approveUser setting the legacy approved flag and not the status.
approveUser_LegacyFlag(id) ==
    /\ IF findById(id) = 0
       THEN Reply(NoUserFound("approveUser"))
       ELSE saveLoaded("approveUser", id,
                       modifiedPaths(users[id], [approved |-> TRUE]),
                       "User approved successfully", "Error approving user")
    /\ UNCHANGED inflight

\* approveUser setting the legacy approved flag together with the status.
approveUser_SetsFlag(id) ==
    /\ IF findById(id) = 0
       THEN Reply(NoUserFound("approveUser"))
       ELSE saveLoaded("approveUser", id,
                       modifiedPaths(users[id], [status |-> "approved", approved |-> TRUE]),
                       "User approved successfully", "Error approving user")
    /\ UNCHANGED inflight

approveUser(id) ==
    /\ IF findById(id) = 0
       THEN Reply(NoUserFound("approveUser"))
       ELSE saveLoaded("approveUser", id,
                       modifiedPaths(users[id], [status |-> "approved"]),
                       "User approved successfully", "Error approving user")
    /\ UNCHANGED inflight

disapproveUser(id, body) ==
    /\ IF findById(id) = 0
       THEN Reply(NoUserFound("disapproveUser"))
       ELSE saveLoaded("disapproveUser", id,
                       modifiedPaths(users[id],
                           [status |-> "disapproved",
                            disapprovalReason |->
                                IF Falsy(Field(body, "reason"))
                                THEN "No reason provided"
                                ELSE body.reason]),
                       "User disapproved successfully", "Error disapproving user")
    /\ UNCHANGED inflight

\* updateUserRoles letting an administrator be made.
updateUserRoles_WithAdmin == {"customer", "rider", "admin"}

\* The roles updateUser may change an account to.
updateUserRoles == {"customer", "rider"}

\* The checks of updateUser: a response, or "ok".
updateUserCheck(id, body) ==
    LET email == Field(body, "email")
        role == Field(body, "role")
    IN  IF findById(id) = 0
        THEN NoUserFound("updateUser")
        ELSE IF /\ email # UNDEF
                /\ email # users[id].email
                /\ emailInUse(email, id)
        THEN BadRequest("updateUser", "Email already in use")
        ELSE IF /\ role # UNDEF
                /\ role # users[id].role
                /\ role \notin updateUserRoles
        THEN BadRequest("updateUser", "Invalid role. Must be customer or rider")
        ELSE [op |-> "updateUser", code |-> 0]

\* The assignments updateUser makes to the loaded document.
updateUserAssignments(id, body) ==
    LET Given(f) == Assign(Field(body, f) # Undefined(f), f, Field(body, f))
    IN  Given("role") @@ Given("email")
        @@ Assign("approved" \in DOMAIN body, "approved", body.approved)
        @@ Given("sex") @@ Given("licenseId") @@ Given("schoolId") @@ Given("phone")
        @@ Given("lastName") @@ Given("middleName") @@ Given("firstName")

\* updateUser saving the loaded document, with the assignments made so far,
\* before it answers a failed check.
updateUser_SavesBeforeFailing(id, body) ==
    /\ IF updateUserCheck(id, body).code # 0
       THEN /\ resp' = updateUserCheck(id, body)
            /\ users' = IF id \in DOMAIN users
                        THEN [users EXCEPT ![id] = applyChanges(@,
                                  Assign(Field(body, "firstName") # UNDEF, "firstName",
                                         Field(body, "firstName")))]
                        ELSE users
            /\ UNCHANGED <<nextId, now, held>>
       ELSE saveLoaded("updateUser", id,
                       modifiedPaths(users[id], updateUserAssignments(id, body)),
                       "User updated successfully", "Error updating user")
    /\ UNCHANGED inflight

updateUser(id, body) ==
    /\ IF updateUserCheck(id, body).code # 0
       THEN Reply(updateUserCheck(id, body))
       ELSE saveLoaded("updateUser", id,
                       modifiedPaths(users[id], updateUserAssignments(id, body)),
                       "User updated successfully", "Error updating user")
    /\ UNCHANGED inflight

deleteUser(id) ==
    /\ IF findById(id) = 0
       THEN Reply(NoUserFound("deleteUser"))
       ELSE /\ users' = [i \in DOMAIN users \ {id} |-> users[i]]
            /\ resp' = [op |-> "deleteUser", code |-> 200,
                        message |-> "User deleted successfully", userId |-> id]
            /\ UNCHANGED <<nextId, now, held>>
    /\ UNCHANGED inflight

\* The signing clock moves on.
Tick ==
    /\ now < MaxClock
    /\ now' = now + 1
    /\ UNCHANGED <<users, nextId, held, resp, inflight>>

\* The client keeps the refresh token of the last response.
keepToken ==
    /\ "refresh_token" \in DOMAIN resp
    /\ held' = {resp.refresh_token}
    /\ held' # held
    /\ UNCHANGED <<users, nextId, now, resp, inflight>>

----------------------------------------------------------------------------
\* Requests

\* The bodies that give field f one of values, or leave it out.
Optional(f, values) == {EmptyBody} \cup {f :> v : v \in values}

\* Requests of the one-step specification: complete credentials for the seeded
\* administrator and for a self-registered account, and one request for each
\* validation failure.
LoginBodies ==
    {[email |-> e, password |-> p, role |-> r] :
        e \in {"admin@x.com", "a@x.com"}, p \in Passwords, r \in LoginRoles}
    \cup {EmptyBody, [email |-> "a@x.com", password |-> "pw", role |-> "driver"]}

AdminLoginBodies ==
    {[email |-> e, password |-> p] : e \in {"admin@x.com", "a@x.com"}, p \in Passwords}

RegisterBodies ==
    {[email |-> e, password |-> "pw", role |-> r] :
        e \in {"admin@x.com", "a@x.com"}, r \in LoginRoles}
    \cup {[email |-> "a@x.com", role |-> "customer"]}

AuthBodies ==
    {[phone |-> ph, role |-> r] : ph \in Phones, r \in LoginRoles}
    \cup {[role |-> "customer"]}

ProfileBodies == {EmptyBody, [email |-> "admin@x.com"]}

DisapproveBodies == {EmptyBody}

UpdateUserBodies ==
    {EmptyBody, [email |-> "admin@x.com"], [role |-> "rider"], [role |-> "admin"]}

Queries == {EmptyBody, [approved |-> "false"]}

----------------------------------------------------------------------------
\* Specification: every handler runs from request to response in one step

\* The seeded administrator.
AdminDocument ==
    NewUser([email |-> "admin@x.com", password |-> Hash("pw"), role |-> "admin",
             approved |-> FALSE, status |-> "pending"])

Init ==
    /\ users = 1 :> AdminDocument
    /\ nextId = 2
    /\ now = 0
    /\ held = {}
    /\ resp = [op |-> "none", code |-> 0]
    /\ inflight = {}

Next ==
    \/ \E body \in LoginBodies : login(body)
    \/ \E body \in AdminLoginBodies : adminLogin(body)
    \/ \E body \in RegisterBodies : register(body)
    \/ \E body \in AuthBodies : auth(body)
    \/ \E body \in RefreshBodies : refreshToken(body)
    \/ \E id \in Ids : getUserProfile(id)
    \/ \E id \in Ids, body \in ProfileBodies : updateUserProfile(id, body)
    \/ \E query \in Queries : getAllUsers(query)
    \/ \E id \in Ids : getUserById(id)
    \/ \E id \in Ids : approveUser(id)
    \/ \E id \in Ids, body \in DisapproveBodies : disapproveUser(id, body)
    \/ \E id \in Ids, body \in UpdateUserBodies : updateUser(id, body)
    \/ \E id \in Ids : deleteUser(id)

Spec == Init /\ [][Next]_vars

----------------------------------------------------------------------------
\* Specification: token issue and refresh while the signing clock moves

TokenRegisterBodies == {[email |-> "a@x.com", password |-> "pw", role |-> "customer"]}

TokenLoginBodies ==
    {[email |-> "admin@x.com", password |-> "pw", role |-> "admin"],
     [email |-> "a@x.com", password |-> "pw", role |-> "customer"]}

NextTokens ==
    \/ \E body \in TokenRegisterBodies : register(body)
    \/ \E body \in TokenLoginBodies : login(body)
    \/ \E body \in RefreshBodies : refreshToken(body)
    \/ \E id \in Ids : approveUser(id)
    \/ \E id \in Ids, body \in DisapproveBodies : disapproveUser(id, body)
    \/ \E id \in Ids : deleteUser(id)
    \/ keepToken
    \/ Tick

SpecTokens == Init /\ [][NextTokens]_vars

----------------------------------------------------------------------------
\* Specification: requests that set an email, with and without a licenseId

EmailRegisterBodies ==
    {[email |-> e, password |-> "pw", role |-> r] :
        e \in {"admin@x.com", "a@x.com"}, r \in SelfServiceRoles}

EmailProfileBodies ==
    {[email |-> e] : e \in Emails}
    \cup {[email |-> e, licenseId |-> <<"a", "b">>] : e \in Emails}

EmailUpdateBodies == {[email |-> e] : e \in Emails}

NextEmail ==
    \/ \E body \in EmailRegisterBodies : register(body)
    \/ \E id \in Ids, body \in EmailProfileBodies : updateUserProfile(id, body)
    \/ \E id \in Ids, body \in EmailUpdateBodies : updateUser(id, body)

SpecEmail == Init /\ [][NextEmail]_vars

----------------------------------------------------------------------------
\* Specification: the store lookups and the save of a handler are separate steps

ConcRegisterBodies ==
    {[email |-> e, password |-> "pw", role |-> "customer"] :
        e \in {"a@x.com", "p1@temp.ecoride.com"}}

ConcAuthBodies == {[phone |-> "p1", role |-> "customer"]}

ConcEmailBodies == {[email |-> e] : e \in {"a@x.com", "p1@temp.ecoride.com"}}

\* register up to the await of user.save(): the checks passed, the document is built.
registerLookup(body) ==
    /\ Cardinality(inflight) < MaxInFlight
    /\ registerCheck(body).code = 0
    /\ inflight' = inflight \cup {[op |-> "register", doc |-> registerDocument(body)]}
    /\ UNCHANGED <<users, nextId, now, held, resp>>

\* auth up to the await of user.save(): no account has the phone.
authLookup(body) ==
    /\ Cardinality(inflight) < MaxInFlight
    /\ authCheck(body).code = 0
    /\ \E randomPassword \in RandomPasswords :
          inflight' = inflight \cup {[op |-> "auth", doc |-> authDocument(body, randomPassword)]}
    /\ UNCHANGED <<users, nextId, now, held, resp>>

\* updateUserProfile up to the await of user.save(): the checks passed, the
\* loaded document carries the assignments.
updateUserProfileLookup(id, body) ==
    /\ Cardinality(inflight) < MaxInFlight
    /\ updateUserProfileCheck(id, body).code = 0
    /\ inflight' = inflight \cup
          {[op |-> "updateUserProfile", id |-> id,
            changes |-> modifiedPaths(users[id], updateUserProfileAssignments(id, body))]}
    /\ UNCHANGED <<users, nextId, now, held, resp>>

\* updateUser up to the await of user.save().
updateUserLookup(id, body) ==
    /\ Cardinality(inflight) < MaxInFlight
    /\ updateUserCheck(id, body).code = 0
    /\ inflight' = inflight \cup
          {[op |-> "updateUser", id |-> id,
            changes |-> modifiedPaths(users[id], updateUserAssignments(id, body))]}
    /\ UNCHANGED <<users, nextId, now, held, resp>>

\* The await of user.save() of a handler that reached it, and its answer.
save(request) ==
    /\ inflight' = inflight \ {request}
    /\ CASE request.op = "register" -> registerSave(request.doc)
         [] request.op = "auth" -> authSave(request.doc)
         [] request.op = "updateUserProfile" ->
                saveLoaded("updateUserProfile", request.id, request.changes,
                           "Profile updated successfully", "E11000 duplicate key error")
         [] request.op = "updateUser" ->
                saveLoaded("updateUser", request.id, request.changes,
                           "User updated successfully", "Error updating user")

NextConc ==
    \/ \E body \in ConcRegisterBodies : registerLookup(body)
    \/ \E body \in ConcAuthBodies : authLookup(body)
    \/ \E id \in Ids, body \in ConcEmailBodies : updateUserProfileLookup(id, body)
    \/ \E id \in Ids, body \in ConcEmailBodies : updateUserLookup(id, body)
    \/ \E request \in inflight : save(request)
    \/ \E body \in ConcRegisterBodies : register(body)
    \/ \E body \in ConcAuthBodies : auth(body)
    \/ \E id \in Ids, body \in ConcEmailBodies : updateUserProfile(id, body)
    \/ \E id \in Ids, body \in ConcEmailBodies : updateUser(id, body)

SpecConc == Init /\ [][NextConc]_vars

----------------------------------------------------------------------------
\* Specification: requests that carry a licenseId or change a role

LicenseIds ==
    {<<"a", "b">>, <<" ", "a", "b", "1", "2", " ">>, <<"A", "B", "1", "2">>, <<>>}

LicenseRegisterBodies ==
    {[email |-> "a@x.com", password |-> "pw", role |-> r] : r \in SelfServiceRoles}
    \cup {[email |-> "a@x.com", password |-> "pw", role |-> r, licenseId |-> l] :
            r \in SelfServiceRoles, l \in LicenseIds}

LicenseProfileBodies == {[licenseId |-> l] : l \in LicenseIds}

LicenseUpdateBodies ==
    {[licenseId |-> l] : l \in LicenseIds} \cup {[role |-> r] : r \in SelfServiceRoles}

NextLicense ==
    \/ \E body \in LicenseRegisterBodies : register(body)
    \/ \E id \in Ids, body \in LicenseProfileBodies : updateUserProfile(id, body)
    \/ \E id \in Ids, body \in LicenseUpdateBodies : updateUser(id, body)

SpecLicense == Init /\ [][NextLicense]_vars

----------------------------------------------------------------------------
\* Specification: listings under every combination of filters

ListQueries ==
    {r @@ a @@ q :
        r \in Optional("role", LoginRoles),
        a \in Optional("approved", {"true", "false"}),
        q \in Optional("search", {"x", "P1"})}

ListRegisterBodies ==
    {[email |-> "a@x.com", password |-> "pw", role |-> r] : r \in SelfServiceRoles}

ListUpdateBodies == {[approved |-> TRUE], [role |-> "customer"]}

NextList ==
    \/ \E body \in ListRegisterBodies : register(body)
    \/ \E body \in AuthBodies : auth(body)
    \/ \E id \in Ids, body \in ListUpdateBodies : updateUser(id, body)
    \/ \E query \in ListQueries : getAllUsers(query)

SpecList == Init /\ [][NextList]_vars

----------------------------------------------------------------------------
\* Specification: sign-up, moderation and sign-in, one request after another

ModerationLoginBodies ==
    {[email |-> e, password |-> "pw", role |-> "customer"] :
        e \in {"a@x.com", "p1@temp.ecoride.com"}}

NextModeration ==
    \/ \E body \in ConcRegisterBodies : register(body)
    \/ \E body \in ConcAuthBodies : auth(body)
    \/ \E body \in ModerationLoginBodies : login(body)
    \/ \E id \in Ids : approveUser(id)
    \/ \E id \in Ids, body \in DisapproveBodies : disapproveUser(id, body)
    \/ \E id \in Ids : deleteUser(id)

SpecModeration == Init /\ [][NextModeration]_vars

----------------------------------------------------------------------------
\* Specification: requests that set a phone, lookups and saves interleaved

PhoneRegisterBodies ==
    {[email |-> "a@x.com", password |-> "pw", role |-> "customer", phone |-> ph] :
        ph \in Phones}

PhoneBodies == {[phone |-> ph] : ph \in Phones}

NextPhone ==
    \/ \E body \in PhoneRegisterBodies : registerLookup(body)
    \/ \E body \in ConcAuthBodies : authLookup(body)
    \/ \E id \in Ids, body \in PhoneBodies : updateUserProfileLookup(id, body)
    \/ \E id \in Ids, body \in PhoneBodies : updateUserLookup(id, body)
    \/ \E request \in inflight : save(request)
    \/ \E body \in PhoneRegisterBodies : register(body)
    \/ \E body \in ConcAuthBodies : auth(body)
    \/ \E id \in Ids, body \in PhoneBodies : updateUserProfile(id, body)
    \/ \E id \in Ids, body \in PhoneBodies : updateUser(id, body)

SpecPhone == Init /\ [][NextPhone]_vars

----------------------------------------------------------------------------
\* Specification: profile updates of an account whose fields are all set

ProfileRegisterBodies ==
    {[email |-> "a@x.com", password |-> "pw", role |-> r, firstName |-> "F",
      middleName |-> "M", lastName |-> "L", phone |-> "p1", schoolId |-> "S",
      licenseId |-> <<"A", "B", "1", "2">>, sex |-> "male"] : r \in SelfServiceRoles}

\* The accounts that update their profile: the self-registered ones.
ProfileIds == Ids \ {1}

ProfileFieldBodies ==
    {f :> v : f \in {"firstName", "lastName", "phone", "sex"}, v \in {"", "n"}}
    \cup {f :> "" : f \in {"middleName", "schoolId"}}
    \cup {[licenseId |-> l] : l \in {<<>>, <<"a", "b", "1", "2">>, <<"a", "b">>}}
    \cup {EmptyBody}

NextProfile ==
    \/ \E body \in ProfileRegisterBodies : register(body)
    \/ \E id \in ProfileIds, body \in ProfileFieldBodies : updateUserProfile(id, body)
    \/ \E id \in ProfileIds : getUserProfile(id)

SpecProfile == Init /\ [][NextProfile]_vars

----------------------------------------------------------------------------
\* Specification: updates whose first fields are assignable and whose later
\* fields may fail a check

FailingProfileBodies ==
    {[firstName |-> "n"],
     [firstName |-> "n", licenseId |-> <<"a", "b">>],
     [firstName |-> "n", email |-> "admin@x.com"],
     [firstName |-> "n", email |-> "a@x.com"]}

FailingUpdateBodies ==
    {[firstName |-> "n"],
     [firstName |-> "n", email |-> "admin@x.com"],
     [firstName |-> "n", email |-> "a@x.com"],
     [firstName |-> "n", role |-> "admin"],
     [firstName |-> "n", role |-> "rider"]}

NextFailing ==
    \/ \E body \in EmailRegisterBodies : register(body)
    \/ \E id \in Ids, body \in FailingProfileBodies : updateUserProfile(id, body)
    \/ \E id \in Ids, body \in FailingUpdateBodies : updateUser(id, body)
    \/ \E id \in Ids : deleteUser(id)

SpecFailing == Init /\ [][NextFailing]_vars

----------------------------------------------------------------------------
\* Specification: moderation of accounts, the legacy approved flag and the
\* listing that filters on it

ApprovalUpdateBodies == {[approved |-> TRUE]}

ApprovalQueries == {[approved |-> "true"], [approved |-> "false"]}

NextApproval ==
    \/ \E body \in EmailRegisterBodies : register(body)
    \/ \E id \in Ids : approveUser(id)
    \/ \E id \in Ids, body \in DisapproveBodies : disapproveUser(id, body)
    \/ \E id \in Ids, body \in ApprovalUpdateBodies : updateUser(id, body)
    \/ \E query \in ApprovalQueries : getAllUsers(query)

SpecApproval == Init /\ [][NextApproval]_vars

----------------------------------------------------------------------------
\* Properties

\* A response that carries no token.
NoTokens(r) == "access_token" \notin DOMAIN r /\ "refresh_token" \notin DOMAIN r

\* A response that carries an access token and a refresh token.
BothTokens(r) == "access_token" \in DOMAIN r /\ "refresh_token" \in DOMAIN r

\* The 403 answer of the approval gate for an account of the given status.
RefusedAs(r, status) ==
    /\ r.code = 403
    /\ NoTokens(r)
    /\ "status" \in DOMAIN r /\ r.status = status
    /\ "isApproved" \in DOMAIN r /\ r.isApproved = FALSE

\* The non-admin accounts the approval gate refuses.
GatedAccounts ==
    {i \in DOMAIN users :
        users[i].role # "admin" /\ users[i].status \in {"pending", "disapproved"}}

\* C1: in every reachable state, for every non-admin account that is pending
\* or disapproved, the answer of login to a request with the account's email,
\* role and password, and the answer of legacy auth to a request with the
\* account's phone and role, is a 403 with the account's current status,
\* isApproved false and no token.
C1_GateRefuses ==
    \A i \in GatedAccounts :
        /\ \A body \in LoginBodies :
            ( /\ Field(body, "email") = users[i].email
              /\ Field(body, "role") = users[i].role
              /\ comparePassword(users[i], Field(body, "password")) )
            => RefusedAs(loginResponse(body), users[i].status)
        /\ \A body \in AuthBodies :
            ( /\ ~Falsy(Field(body, "phone"))
              /\ Field(body, "phone") = users[i].phone
              /\ Field(body, "role") = users[i].role )
            => RefusedAs(authCheck(body), users[i].status)

\* C1 witness: login has refused a disapproved non-admin account whose
\* credentials are those of a request of the model.
C1_Witness ==
    /\ resp.op = "login" /\ resp.code = 403 /\ resp.status = "disapproved"
    /\ \E i \in GatedAccounts :
          /\ users[i].status = "disapproved"
          /\ [email |-> users[i].email, password |-> "pw", role |-> users[i].role]
                \in LoginBodies
          /\ comparePassword(users[i], "pw")

\* The accounts whose role is admin.
Admins == {i \in DOMAIN users : users[i].role = "admin"}

\* C2: in every reachable state, for every account with role admin, whatever
\* its status, the answer of login to a request with role admin and the answer
\* of admin-login, each with the account's email and password, is a 200 with an
\* access token and a refresh token.
C2_AdminBypass ==
    \A i \in Admins :
        /\ \A body \in LoginBodies :
            ( /\ Field(body, "role") = "admin"
              /\ Field(body, "email") = users[i].email
              /\ comparePassword(users[i], Field(body, "password")) )
            => loginResponse(body).code = 200 /\ BothTokens(loginResponse(body))
        /\ \A body \in AdminLoginBodies :
            ( /\ body.email = users[i].email
              /\ comparePassword(users[i], body.password) )
            => adminLoginResponse(body).code = 200 /\ BothTokens(adminLoginResponse(body))

\* C2 witness: login has issued tokens to an admin account that is disapproved.
C2_Witness ==
    /\ resp.op = "login" /\ resp.code = 200 /\ BothTokens(resp)
    /\ resp.user._id \in Admins
    /\ users[resp.user._id].status = "disapproved"

\* C3: an account that appears in the store has status pending, and the status
\* of an account changes only in an approveUser or a disapproveUser step.
C3_StatusLifecycle ==
    [][/\ \A i \in DOMAIN users' \ DOMAIN users : users'[i].status = "pending"
       /\ (\E i \in DOMAIN users \cap DOMAIN users' : users'[i].status # users[i].status)
            => \/ \E id \in Ids : approveUser(id)
               \/ \E id \in Ids, body \in DisapproveBodies : disapproveUser(id, body)]_vars

\* C3 witness: a self-registered account has been approved.
C3_Witness ==
    /\ resp.op = "approveUser" /\ resp.code = 200
    /\ resp.user._id # 1
    /\ users[resp.user._id].status = "approved"
    /\ users[resp.user._id].email = "a@x.com"

\* C8: no response carries the password hash of an account, in a user object
\* or in a list of users.
C8_NoPasswordInResponse ==
    /\ "user" \in DOMAIN resp => "password" \notin DOMAIN resp.user
    /\ "users" \in DOMAIN resp =>
            \A k \in DOMAIN resp.users : "password" \notin DOMAIN resp.users[k]

\* The login requests that carry an email, a password and a valid role.
CompleteLoginBodies ==
    {body \in LoginBodies :
        /\ ~Falsy(Field(body, "email"))
        /\ ~Falsy(Field(body, "password"))
        /\ Field(body, "role") \in LoginRoles}

\* The accounts a login request's email and role name and its password verifies.
Verified(body) ==
    {i \in DOMAIN users :
        /\ users[i].email = body.email
        /\ users[i].role = body.role
        /\ comparePassword(users[i], body.password)}

\* C9: in every reachable state, the answer of login to a request with email,
\* password and a valid role gets past the credential check (a 200 or the
\* gate's 403) only when an account has exactly that email and role and the
\* password verifies; otherwise, whether no account has the email, the account
\* has another role or the password is wrong, the answer is the one
\* Unauthenticated "Invalid credentials" response.
C9_AntiEnumeration ==
    \A body \in CompleteLoginBodies :
        IF Verified(body) # {}
        THEN loginResponse(body).code \in {200, 403}
        ELSE loginResponse(body) = Unauthenticated("login", "Invalid credentials")

\* C9 witness: the last response is the Invalid credentials answer of login to a
\* request whose email is stored with another role, and it is also the answer
\* to a request with an unknown email and to one with a wrong password.
C9_Witness ==
    /\ resp = Unauthenticated("login", "Invalid credentials")
    /\ \E body \in CompleteLoginBodies :
          /\ \E i \in DOMAIN users : users[i].email = body.email /\ users[i].role # body.role
          /\ loginResponse(body) = resp
    /\ \E body \in CompleteLoginBodies :
          /\ \A i \in DOMAIN users : users[i].email # body.email
          /\ loginResponse(body) = resp
    /\ \E body \in CompleteLoginBodies :
          /\ \E i \in DOMAIN users :
                /\ users[i].email = body.email /\ users[i].role = body.role
                /\ ~comparePassword(users[i], body.password)
          /\ loginResponse(body) = resp

\* C10: every stored account has a role of the fixed set, no step adds an
\* account to the set of admins, and a register or legacy auth step asked for
\* role admin answers BadRequest and leaves the store as it was.
C10_NoAdminBySelfService ==
    [][/\ \A i \in DOMAIN users' : users'[i].role \in LoginRoles
       /\ {i \in DOMAIN users' : users'[i].role = "admin"} \subseteq Admins
       /\ \A body \in RegisterBodies :
            (Field(body, "role") = "admin" /\ resp'.op = "register" /\ register(body))
            => resp'.code = 400 /\ resp'.error = "BadRequestError" /\ users' = users
       /\ \A body \in AuthBodies :
            (Field(body, "role") = "admin" /\ resp'.op = "auth" /\ auth(body))
            => resp'.code = 400 /\ resp'.error = "BadRequestError" /\ users' = users]_vars

\* C10 witness: updateUser has refused to make a non-admin account an admin.
C10_Witness ==
    /\ resp = BadRequest("updateUser", "Invalid role. Must be customer or rider")
    /\ \E i \in DOMAIN users : users[i].role \in SelfServiceRoles

\* C6: a refreshToken step that answers 200 to a presented refresh token
\* returns an access token and a refresh token that both differ from the
\* presented one.
C6_RefreshRotates ==
    [][\A body \in RefreshBodies :
          ( /\ "refresh_token" \in DOMAIN body
            /\ refreshToken(body)
            /\ resp'.code = 200 )
          => /\ BothTokens(resp')
             /\ resp'.access_token # body.refresh_token
             /\ resp'.refresh_token # body.refresh_token]_vars

\* The reasons the verification or the lookup of a presented refresh token fails.
BadSignature(t) == t.key # "REFRESH_TOKEN_SECRET"

Expired(t) == ~BadSignature(t) /\ now >= t.exp

UnknownAccount(t) == ~BadSignature(t) /\ ~Expired(t) /\ t.id \notin DOMAIN users

\* C7: in every reachable state, the answer of refreshToken to a request
\* without a token is BadRequest, the only 400 of the handler; to a token with
\* a bad signature, an expired token or a token of an account that is no
\* longer stored, the answer is the one Unauthenticated "Invalid refresh
\* token" response, without tokens.
C7_RefreshFailuresNormalized ==
    \A body \in RefreshBodies :
        IF "refresh_token" \notin DOMAIN body
        THEN refreshTokenResponse(body) = BadRequest("refreshToken", "Refresh token is required")
        ELSE /\ refreshTokenResponse(body).code # 400
             /\ ( \/ BadSignature(body.refresh_token)
                  \/ Expired(body.refresh_token)
                  \/ UnknownAccount(body.refresh_token) )
                => refreshTokenResponse(body)
                      = Unauthenticated("refreshToken", "Invalid refresh token")

\* C7 witness: refreshToken has answered Invalid refresh token, and the client
\* holds a well-signed, unexpired token of an account that was deleted.
C7_Witness ==
    /\ resp = Unauthenticated("refreshToken", "Invalid refresh token")
    /\ \E t \in held : UnknownAccount(t)
    /\ \A t \in held : ~BadSignature(t) /\ ~Expired(t)

\* An account other than id has the email.
OnAnotherAccount(email, id) == \E j \in DOMAIN users \ {id} : users[j].email = email

EmailInUseAnswer(op) == BadRequest(op, "Email already in use")

\* The licenseId check of updateUserProfile refuses the request.
LicenseRefused(id, body) ==
    /\ users[id].role = "rider"
    /\ "licenseId" \in DOMAIN body
    /\ ~FalsyLicense(body.licenseId)
    /\ Len(formatLicenseId(body.licenseId)) < 4

\* Setting an account's email to its own current email is not answered as a conflict.
OwnEmailIsNoConflict ==
    /\ \A id \in DOMAIN users, body \in EmailProfileBodies :
          (body.email = users[id].email /\ updateUserProfile(id, body))
          => resp' # EmailInUseAnswer("updateUserProfile")
    /\ \A id \in DOMAIN users, body \in EmailUpdateBodies :
          (body.email = users[id].email /\ updateUser(id, body))
          => resp' # EmailInUseAnswer("updateUser")

\* C5 as stated: a register, updateUserProfile or updateUser step whose email
\* is stored on another account answers BadRequest "Email already in use" and
\* leaves the store as it was; an account's own email is not a conflict.
C5_DuplicateEmailBadRequest ==
    [][/\ \A body \in EmailRegisterBodies :
            (OnAnotherAccount(body.email, 0) /\ register(body))
            => resp' = EmailInUseAnswer("register") /\ users' = users
       /\ \A id \in DOMAIN users, body \in EmailProfileBodies :
            (OnAnotherAccount(body.email, id) /\ updateUserProfile(id, body))
            => resp' = EmailInUseAnswer("updateUserProfile") /\ users' = users
       /\ \A id \in DOMAIN users, body \in EmailUpdateBodies :
            (OnAnotherAccount(body.email, id) /\ updateUser(id, body))
            => resp' = EmailInUseAnswer("updateUser") /\ users' = users
       /\ OwnEmailIsNoConflict]_vars

\* C5 amended: such a step always answers a BadRequest and leaves the store as
\* it was; the BadRequest is "Email already in use" for register (given a
\* password and a valid role) and for updateUser, and for updateUserProfile
\* unless the licenseId check, which runs first, refuses the request; an
\* account's own email is not a conflict.
C5_DuplicateEmailBadRequestUnlessLicense ==
    [][/\ \A body \in EmailRegisterBodies :
            (OnAnotherAccount(body.email, 0) /\ register(body))
            => resp' = EmailInUseAnswer("register") /\ users' = users
       /\ \A id \in DOMAIN users, body \in EmailProfileBodies :
            (OnAnotherAccount(body.email, id) /\ updateUserProfile(id, body))
            => /\ users' = users
               /\ resp'.code = 400 /\ resp'.error = "BadRequestError"
               /\ IF LicenseRefused(id, body)
                  THEN resp' = BadRequest("updateUserProfile",
                                          "License ID must be at least 4 characters")
                  ELSE resp' = EmailInUseAnswer("updateUserProfile")
       /\ \A id \in DOMAIN users, body \in EmailUpdateBodies :
            (OnAnotherAccount(body.email, id) /\ updateUser(id, body))
            => resp' = EmailInUseAnswer("updateUser") /\ users' = users
       /\ OwnEmailIsNoConflict]_vars

\* C5 witness: updateUserProfile has answered Email already in use to a rider
\* while another account has the administrator's email.
C5_Witness ==
    /\ resp = EmailInUseAnswer("updateUserProfile")
    /\ \E i \in DOMAIN users :
          /\ users[i].role = "rider"
          /\ OnAnotherAccount("admin@x.com", i)

\* C4: in every reachable state, with lookups and saves of register, legacy
\* auth, updateUserProfile and updateUser interleaved, no two stored accounts
\* have the same email.
C4_EmailUnique ==
    \A i, j \in DOMAIN users : i # j => users[i].email # users[j].email

\* C4 witness: a register that passed its existence check lost the race, and
\* its save was rejected while another account has an email of its requests.
C4_Witness ==
    /\ resp = ServerFailure("register", "E11000 duplicate key error")
    /\ \E i \in DOMAIN users, body \in ConcRegisterBodies : users[i].email = body.email

\* C11: the role of an account changes only in an updateUser step, and then
\* the role before and the role after are both customer or rider.
C11_RoleChangesOnlyBetweenCustomerAndRider ==
    [][\A i \in DOMAIN users \cap DOMAIN users' :
          users'[i].role # users[i].role
          => /\ \E id \in Ids, body \in UpdateUserBodies : updateUser(id, body)
             /\ users[i].role \in {"customer", "rider"}
             /\ users'[i].role \in {"customer", "rider"}]_vars

\* A licenseId that is trimmed, upper-case and at least 4 characters long.
NormalizedLicense(l) == l = formatLicenseId(l) /\ Len(l) >= 4

\* A licenseId that is present, not empty, and shorter than 4 characters once trimmed.
ShortLicense(body) ==
    /\ "licenseId" \in DOMAIN body
    /\ ~FalsyLicense(body.licenseId)
    /\ Len(trim(body.licenseId)) < 4

\* C12: after every step each stored rider with a non-empty licenseId holds a
\* trimmed, upper-case value of at least 4 characters, and a register,
\* updateUserProfile or updateUser step whose licenseId is shorter than 4
\* characters after trimming, for a rider, answers BadRequest.
C12_LicenseIdNormalized ==
    [][/\ \A i \in DOMAIN users' :
            (users'[i].role = "rider" /\ ~FalsyLicense(users'[i].licenseId))
            => NormalizedLicense(users'[i].licenseId)
       /\ \A body \in LicenseRegisterBodies :
            (body.role = "rider" /\ ShortLicense(body) /\ register(body))
            => resp'.code = 400 /\ resp'.error = "BadRequestError"
       /\ \A id \in DOMAIN users, body \in LicenseProfileBodies :
            (users[id].role = "rider" /\ ShortLicense(body) /\ updateUserProfile(id, body))
            => resp'.code = 400 /\ resp'.error = "BadRequestError"
       /\ \A id \in DOMAIN users, body \in LicenseUpdateBodies :
            (users[id].role = "rider" /\ ShortLicense(body) /\ updateUser(id, body))
            => resp'.code = 400 /\ resp'.error = "BadRequestError"]_vars

\* C13: in every reachable state, for every combination of the role, approved
\* and search filters, the answer of getAllUsers lists no account whose role
\* is admin.
C13_ListingExcludesAdmins ==
    \A query \in ListQueries :
        \A k \in DOMAIN getAllUsersResponse(query).users :
            getAllUsersResponse(query).users[k].role # "admin"

\* C13 witness: getAllUsers has answered a request that filters on role admin
\* with a listing that is not empty, while an admin account is stored.
C13_Witness ==
    /\ resp.op = "getAllUsers" /\ resp.count >= 1
    /\ resp = getAllUsersResponse([role |-> "admin"])
    /\ Admins # {}

\* The non-admin accounts that satisfy every filter a query supplies.
SatisfyEveryFilter(query) ==
    {i \in DOMAIN users :
        /\ users[i].role # "admin"
        /\ "role" \in DOMAIN query => users[i].role = query.role
        /\ "approved" \in DOMAIN query => users[i].approved = (query.approved = "true")
        /\ "search" \in DOMAIN query =>
              \E f \in {"firstName", "lastName", "email", "phone"} :
                  regexMatch(users[i][f], query.search)}

\* The accounts a listing returns.
Listed(r) == {r.users[k]._id : k \in DOMAIN r.users}

\* C14: a getAllUsers step returns exactly the non-admin accounts that satisfy
\* every filter of its request: the role (customer or rider), the approved
\* value and the search.
C14_ListingIsConjunctive ==
    [][\A query \in ListQueries :
          ( /\ Field(query, "role") # "admin"
            /\ resp'.op = "getAllUsers"
            /\ getAllUsers(query) )
          => Listed(resp') = SatisfyEveryFilter(query)]_vars

\* A register request that is to succeed: email and password present, a
\* self-service role, the email on no account, the licenseId of a rider valid.
RegisterIsValid(body) ==
    /\ ~Falsy(Field(body, "email")) /\ ~Falsy(Field(body, "password"))
    /\ Field(body, "role") \in {"customer", "rider"}
    /\ ~OnAnotherAccount(body.email, 0)
    /\ ~(body.role = "rider" /\ ShortLicense(body))

\* C15: a register step of a valid request adds exactly one account, with the
\* request's email and role, status pending and approved false, leaves the
\* other accounts as they were, and answers 201 with an access token and a
\* refresh token of the new account, isApproved false and status pending.
C15_RegisterCreatesPending ==
    [][\A body \in LicenseRegisterBodies :
          (RegisterIsValid(body) /\ resp'.op = "register" /\ register(body))
          => /\ DOMAIN users' = DOMAIN users \cup {nextId}
             /\ nextId \notin DOMAIN users
             /\ \A i \in DOMAIN users : users'[i] = users[i]
             /\ users'[nextId].email = body.email
             /\ users'[nextId].role = body.role
             /\ users'[nextId].status = "pending"
             /\ users'[nextId].approved = FALSE
             /\ resp'.code = 201
             /\ BothTokens(resp')
             /\ resp'.access_token.id = nextId
             /\ resp'.refresh_token.id = nextId
             /\ resp'.isApproved = FALSE
             /\ resp'.status = "pending"]_vars

\* C15 witness: register has answered 201 to a rider, the refresh token of the
\* answer verifies, the account is pending, and login with the account's
\* credentials is refused as pending.
C15_Witness ==
    /\ resp.op = "register" /\ resp.code = 201
    /\ jwtVerify(resp.refresh_token, "REFRESH_TOKEN_SECRET")
    /\ users[resp.user._id].role = "rider"
    /\ users[resp.user._id].status = "pending"
    /\ users[resp.user._id].licenseId = <<"A", "B", "1", "2">>
    /\ RefusedAs(loginResponse([email |-> users[resp.user._id].email,
                                password |-> "pw", role |-> "rider"]), "pending")

\* C16: a legacy auth step with a valid role and a phone that no account has
\* adds exactly one account with that phone and role and status pending, and
\* answers 403 pending without tokens and with a user of _id, phone and role.
C16_AuthFirstContactCreates ==
    [][\A body \in ConcAuthBodies :
          ( /\ \A i \in DOMAIN users : users[i].phone # body.phone
            /\ resp'.op = "auth"
            /\ auth(body) )
          => /\ DOMAIN users' = DOMAIN users \cup {nextId}
             /\ nextId \notin DOMAIN users
             /\ users'[nextId].phone = body.phone
             /\ users'[nextId].role = body.role
             /\ users'[nextId].status = "pending"
             /\ resp'.code = 403
             /\ NoTokens(resp')
             /\ resp'.status = "pending"
             /\ DOMAIN resp'.user = {"_id", "phone", "role"}]_vars

\* The answer of login to the email and role of account i with the password "pw".
LoginAnswer(i) ==
    loginResponse([email |-> users[i].email, password |-> "pw", role |-> users[i].role])

\* The answer the approval gate owes an account of the given status.
AnswersStatus(r, status) ==
    IF status = "approved" THEN r.code = 200 /\ BothTokens(r) ELSE RefusedAs(r, status)

\* C17: for every non-admin account whose password is known, after every step
\* the answer of login with its credentials is the one its status calls for
\* (403 pending, 200 with tokens, 403 disapproved), and that status is pending
\* when the account is created, approved after an approveUser step on it,
\* disapproved after a disapproveUser step on it, and otherwise what it was.
C17_GateFollowsModeration ==
    [][\A i \in DOMAIN users' :
          (users'[i].role # "admin" /\ comparePassword(users'[i], "pw"))
          => /\ AnswersStatus(LoginAnswer(i)', users'[i].status)
             /\ users'[i].status =
                  IF i \notin DOMAIN users THEN "pending"
                  ELSE IF approveUser(i) THEN "approved"
                  ELSE IF \E body \in DisapproveBodies : disapproveUser(i, body)
                       THEN "disapproved"
                  ELSE users[i].status]_vars

\* C17 witness: login has answered 200 with tokens to a self-registered
\* account, which was pending when created and has been approved since.
C17_Witness ==
    /\ resp.op = "login" /\ resp.code = 200 /\ BothTokens(resp)
    /\ users[resp.user._id].role # "admin"
    /\ users[resp.user._id].status = "approved"

\* C18: in every reachable state, with lookups and saves of register, legacy
\* auth, updateUserProfile and updateUser interleaved, no two stored accounts
\* have the same non-empty phone.
C18_PhoneUnique ==
    \A i, j \in DOMAIN users :
        (i # j /\ ~Falsy(users[i].phone)) => users[i].phone # users[j].phone

\* C18 witness: the save of a register whose email is on no account was
\* rejected while another account has the phone of its requests.
C18_Witness ==
    /\ resp = ServerFailure("register", "E11000 duplicate key error")
    /\ \A i \in DOMAIN users : users[i].email # "a@x.com"
    /\ \E i \in DOMAIN users, body \in PhoneRegisterBodies : users[i].phone = body.phone

\* C19: an updateUserProfile step that answers 200 leaves firstName, lastName
\* and phone as they were when the request's value is omitted or empty and
\* writes the value otherwise; it leaves middleName, schoolId, licenseId and
\* sex as they were only when the value is omitted, and writes a value that is
\* present, the empty string included (a rider's licenseId as formatted).
C19_ProfileFieldAsymmetry ==
    [][\A id \in DOMAIN users, body \in ProfileFieldBodies :
          ( /\ resp'.op = "updateUserProfile" /\ resp'.code = 200
            /\ updateUserProfile(id, body) )
          => /\ \A f \in {"firstName", "lastName", "phone"} :
                  users'[id][f] = IF Falsy(Field(body, f)) THEN users[id][f] ELSE body[f]
             /\ \A f \in {"middleName", "schoolId", "sex"} :
                  users'[id][f] = IF f \in DOMAIN body THEN body[f] ELSE users[id][f]
             /\ users'[id].licenseId =
                  IF "licenseId" \notin DOMAIN body THEN users[id].licenseId
                  ELSE IF users[id].role = "rider" /\ ~FalsyLicense(body.licenseId)
                       THEN formatLicenseId(body.licenseId)
                  ELSE body.licenseId]_vars

\* A refresh token that verifies now and whose account is stored.
Presentable(t) == jwtVerify(t, "REFRESH_TOKEN_SECRET") /\ t.id \in DOMAIN users

\* C20: in every reachable state, for every refresh token a client has that
\* verifies and whose account is stored, whatever the account's status and
\* whether or not the token was presented before, the answer of refreshToken
\* is a 200 with an access token and a refresh token of that account.
C20_RefreshIgnoresGateAndReuse ==
    \A t \in ClientTokens :
        Presentable(t)
        => LET r == refreshTokenResponse([refresh_token |-> t])
           IN  /\ r.code = 200 /\ BothTokens(r)
               /\ r.access_token.id = t.id /\ r.refresh_token.id = t.id
               /\ jwtVerify(r.refresh_token, "REFRESH_TOKEN_SECRET")

\* C20 witness: refreshToken has answered 200 to the token the client keeps,
\* issued in an earlier tick to a non-admin account that is now disapproved,
\* and the kept token is still good for another refresh.
C20_Witness ==
    /\ resp.op = "refreshToken" /\ resp.code = 200
    /\ \E t \in held :
          /\ Presentable(t)
          /\ t.id = resp.refresh_token.id
          /\ t.iat < resp.refresh_token.iat
          /\ users[t.id].role # "admin"
          /\ users[t.id].status = "disapproved"

\* C21: an updateUserProfile or updateUser step that answers anything but 200
\* (BadRequest, Unauthenticated, NotFound) leaves every stored account as it
\* was, whatever fields of the request precede the failing check.
C21_FailureLeavesStore ==
    [][/\ \A id \in Ids, body \in FailingProfileBodies :
            ( /\ resp'.op = "updateUserProfile" /\ resp'.code # 200
              /\ updateUserProfile(id, body) )
            => users' = users
       /\ \A id \in Ids, body \in FailingUpdateBodies :
            ( /\ resp'.op = "updateUser" /\ resp'.code # 200
              /\ updateUser(id, body) )
            => users' = users]_vars

\* C21 witness: updateUser has answered Email already in use to a request that
\* also carried a firstName, and no account has that firstName.
C21_Witness ==
    /\ resp = BadRequest("updateUser", "Email already in use")
    /\ Cardinality(DOMAIN users) >= 2
    /\ \A i \in DOMAIN users : users[i].firstName # "n"

\* The accounts the listing with approved=true returns.
ListedAsApproved == Listed(getAllUsersResponse([approved |-> "true"]))

\* C22: an approveUser step on a stored account sets its status to approved
\* and leaves every other field of it, approved, disapprovalReason and role
\* included, and every other account as they were; the accounts the listing
\* with approved=true returns are the same after the step as before.
C22_ApproveWritesOnlyStatus ==
    [][\A id \in DOMAIN users :
          (resp'.op = "approveUser" /\ approveUser(id))
          => /\ users' = [users EXCEPT ![id].status = "approved"]
             /\ ListedAsApproved' = ListedAsApproved]_vars

\* C22 witness: approveUser has approved a non-admin account that was
\* disapproved before: it keeps its disapprovalReason, its approved flag is
\* false, and the listing with approved=true does not return it.
C22_Witness ==
    /\ resp.op = "approveUser" /\ resp.code = 200
    /\ users[resp.user._id].role # "admin"
    /\ users[resp.user._id].status = "approved"
    /\ users[resp.user._id].disapprovalReason = "No reason provided"
    /\ users[resp.user._id].approved = FALSE
    /\ resp.user._id \notin ListedAsApproved
====
